---- MODULE Spec2Model ----
(***************************************************************************)
(* BigQueryGetDataOperator (airflow/contrib/operators/bigquery_get_data.py) *)
(* as a state machine: construction of the task, then any number of        *)
(* execute() invocations against a stub hook / connection / cursor.        *)
(*                                                                         *)
(* Python dicts are functions whose DOMAIN is the set of keys present, so  *)
(* d['k'] on a missing key (KeyError) is "k" \notin DOMAIN d.              *)
(***************************************************************************)
EXTENDS Integers, Sequences, FiniteSets, TLC

VARIABLES
    args,        \* keyword arguments of the constructor call
    backend,     \* what the stub cursor holds for the table: {} or {rows: [...]}
    self,        \* attributes of the operator instance ({} before __init__)
    warnings,    \* warnings emitted so far (categories)
    pc,          \* position: "new", "idle", or the next line of execute
    response,    \* local of execute
    it,          \* local of execute: records not yet visited by the outer for loop
    table_data,  \* local of execute
    run,         \* record of the current / most recent invocation of execute
    last         \* record of the invocation before it

vars == <<args, backend, self, warnings, pc, response, it, table_data, run, last>>

----------------------------------------------------------------------------
(* Bounds of the model *)

MaxRows == 2
MaxCells == 1
MaxTotalRows == 1

----------------------------------------------------------------------------
(* Values *)

None == "<None>"
EmptyDict == [k \in {} |-> None]
Dict(k, v) == [x \in {k} |-> v]

SeqsUpTo(S, n) == UNION {[1..k -> S] : k \in 0..n}

CellValues == {"Tony", "10"}
Cells == {Dict("v", x) : x \in CellValues} \cup {EmptyDict}
Records == {Dict("f", cs) : cs \in SeqsUpTo(Cells, MaxCells)} \cup {EmptyDict}

Cell(x) == Dict("v", x)
Rec(cs) == Dict("f", cs)

\* the docstring's example table, and versions of it with one part missing
ExampleRows ==
    << Rec(<<Cell("Tony"), Cell("10")>>),
       Rec(<<Cell("Mike"), Cell("20")>>),
       Rec(<<Cell("Steve"), Cell("15")>>) >>
ExampleNoValue ==
    << Rec(<<Cell("Tony"), Cell("10")>>),
       Rec(<<Cell("Mike"), EmptyDict>>),
       Rec(<<Cell("Steve"), Cell("15")>>) >>
ExampleNoCells ==
    << Rec(<<Cell("Tony"), Cell("10")>>),
       Rec(<<Cell("Mike"), Cell("20")>>),
       EmptyDict >>
ExampleResult == << <<"Tony", "10">>, <<"Mike", "20">>, <<"Steve", "15">> >>

ExampleBackends == {Dict("rows", r) : r \in {ExampleRows, ExampleNoValue, ExampleNoCells}}
Backends ==
    {Dict("rows", r) : r \in SeqsUpTo(Records, MaxRows)}
        \cup {EmptyDict} \cup ExampleBackends

TotalRowsValues == 0..MaxTotalRows
\* the responses get_tabledata can give for a table: totalRows present or not
ResponsesOf(b) ==
    {b} \cup {[k \in DOMAIN b \cup {"totalRows"} |->
                  IF k = "totalRows" THEN n ELSE b[k]] : n \in TotalRowsValues}

CollaboratorErrors == {"AirflowException", "HttpError"}

ArgNames == {"dataset_id", "table_id", "max_results", "selected_fields",
             "gcp_conn_id", "bigquery_conn_id", "delegate_to", "location"}
AttrNames == ArgNames \ {"bigquery_conn_id"}

ArgSets ==
    [dataset_id       : {"", "test_dataset"},
     table_id         : {"", "Transaction_partitions"},
     max_results      : {"100"},
     selected_fields  : {None, "DATE"},
     gcp_conn_id      : {"google_cloud_default", "airflow-conn-id"},
     bigquery_conn_id : {None, "", "bigquery_default"},
     delegate_to      : {None, "svc@example"},
     location         : {None, "EU"}]

ExampleArgs ==
    [dataset_id       |-> "test_dataset",
     table_id         |-> "Transaction_partitions",
     max_results      |-> "100",
     selected_fields  |-> "DATE",
     gcp_conn_id      |-> "airflow-conn-id",
     bigquery_conn_id |-> None,
     delegate_to      |-> None,
     location         |-> None]

----------------------------------------------------------------------------
(* __init__ *)

\* Python truth value of an Optional[str]
Truthy(x) == x # None /\ x # ""

\* variant: the legacy parameter is ignored
ResolveConnIdPrimaryOnly(gcp_conn_id, bigquery_conn_id) == gcp_conn_id

ResolveConnId(gcp_conn_id, bigquery_conn_id) ==
    IF Truthy(bigquery_conn_id) THEN bigquery_conn_id ELSE gcp_conn_id

DeprecationWarnings(bigquery_conn_id) ==
    IF Truthy(bigquery_conn_id) THEN <<"DeprecationWarning">> ELSE <<>>

\* variant: an empty identifier is replaced by a placeholder
InitAttrsDefaulted(a) ==
    [n \in AttrNames |->
        IF n = "gcp_conn_id"
        THEN ResolveConnId(a.gcp_conn_id, a.bigquery_conn_id)
        ELSE IF n \in {"dataset_id", "table_id"} /\ a[n] = "" THEN "default"
        ELSE a[n]]

InitAttrs(a) ==
    [n \in AttrNames |->
        IF n = "gcp_conn_id"
        THEN ResolveConnId(a.gcp_conn_id, a.bigquery_conn_id)
        ELSE a[n]]

----------------------------------------------------------------------------
(* execute *)

NoRun == [kind |-> "none", calls |-> <<>>, response |-> EmptyDict,
          result |-> <<>>, error |-> None]

HookCall(s) ==
    [op |-> "BigQueryHook",
     kw |-> [bigquery_conn_id |-> s["gcp_conn_id"],
             delegate_to      |-> s["delegate_to"],
             location         |-> s["location"]]]

GetConnCall == [op |-> "get_conn", kw |-> EmptyDict]
CursorCall == [op |-> "cursor", kw |-> EmptyDict]

\* variant: an absent selected_fields is sent as the empty string
GetTabledataCallBlankFields(s) ==
    [op |-> "get_tabledata",
     kw |-> [dataset_id      |-> s["dataset_id"],
             table_id        |-> s["table_id"],
             max_results     |-> s["max_results"],
             selected_fields |-> IF s["selected_fields"] = None
                                 THEN "" ELSE s["selected_fields"]]]

GetTabledataCall(s) ==
    [op |-> "get_tabledata",
     kw |-> [dataset_id      |-> s["dataset_id"],
             table_id        |-> s["table_id"],
             max_results     |-> s["max_results"],
             selected_fields |-> s["selected_fields"]]]

\* what the stub records of one call: the call and the exception it raised, if any
Logged(call, e) == [op |-> call.op, kw |-> call.kw, raised |-> e]

\* variant: the exception is wrapped in the framework's own exception type
PropagateWrapped(r, e) == [r EXCEPT !.kind = "raised", !.error = "AirflowException"]

\* variant: the exception is caught and an empty list returned
PropagateSwallowed(r, e) == [r EXCEPT !.kind = "returned", !.result = <<>>]

\* an exception e leaves execute: nothing is caught, nothing is returned
Propagate(r, e) == [r EXCEPT !.kind = "raised", !.error = e]

\* variant: no more records than totalRows announces
RowsOfTruncated(resp) ==
    SubSeq(resp["rows"], 1,
           IF resp["totalRows"] < Len(resp["rows"])
           THEN resp["totalRows"] ELSE Len(resp["rows"]))

\* line 128
RowsOf(resp) == resp["rows"]

\* variant: the list of an earlier invocation is kept
KeepTableData(old) == old

\* line 130
NewTableData(old) == <<>>

\* lines 132-134: the inner loop over the cells of one record
RECURSIVE AppendCells(_, _)
AppendCells(single_row, fields) ==
    IF fields = <<>> THEN single_row
    ELSE AppendCells(Append(single_row, Head(fields)["v"]), Tail(fields))

\* the inner loop meets a cell without 'v'
CellKeyError(fields) == \E k \in 1..Len(fields) : "v" \notin DOMAIN fields[k]

\* variant: the newest row goes first
PrependRow(td, single_row) == <<single_row>> \o td

\* line 135
AppendRow(td, single_row) == Append(td, single_row)

Init ==
    /\ \/ args = ExampleArgs /\ backend \in Backends
       \/ args \in ArgSets /\ backend \in ExampleBackends
    /\ self = EmptyDict
    /\ warnings = <<>>
    /\ pc = "new"
    /\ response = EmptyDict
    /\ it = <<>>
    /\ table_data = <<>>
    /\ run = NoRun
    /\ last = NoRun

\* lines 84-109
Construct ==
    /\ pc = "new"
    /\ warnings' = warnings \o DeprecationWarnings(args.bigquery_conn_id)
    /\ self' = InitAttrs(args)
    /\ pc' = "idle"
    /\ UNCHANGED <<args, backend, response, it, table_data, run, last>>

\* lines 111-114: a new invocation; its frame's locals are unbound until assigned
ExecuteStart ==
    /\ pc = "idle"
    /\ last' = run
    /\ run' = [NoRun EXCEPT !.kind = "running"]
    /\ pc' = "l116"
    /\ UNCHANGED <<args, backend, self, warnings, response, it, table_data>>

\* a collaborator call at line `at`: it returns and execute goes on to `next`,
\* or it raises and the exception leaves execute
CollaboratorCall(at, call, next) ==
    /\ pc = at
    /\ \/ /\ run' = [run EXCEPT !.calls = Append(@, Logged(call, None))]
          /\ pc' = next
       \/ \E e \in CollaboratorErrors :
            /\ run' = Propagate([run EXCEPT !.calls = Append(@, Logged(call, e))], e)
            /\ pc' = "idle"

\* lines 116-118
NewHook ==
    /\ CollaboratorCall("l116", HookCall(self), "l120")
    /\ UNCHANGED <<args, backend, self, warnings, response, it, table_data, last>>

\* line 120
GetConn ==
    /\ CollaboratorCall("l120", GetConnCall, "l121")
    /\ UNCHANGED <<args, backend, self, warnings, response, it, table_data, last>>

\* line 121
Cursor ==
    /\ CollaboratorCall("l121", CursorCall, "l122")
    /\ UNCHANGED <<args, backend, self, warnings, response, it, table_data, last>>

\* lines 122-125
GetTabledata ==
    /\ pc = "l122"
    /\ \/ \E resp \in ResponsesOf(backend) :
            /\ response' = resp
            /\ run' = [run EXCEPT
                          !.calls = Append(@, Logged(GetTabledataCall(self), None)),
                          !.response = resp]
            /\ pc' = "l127"
       \/ \E e \in CollaboratorErrors :
            /\ run' = Propagate(
                          [run EXCEPT !.calls = Append(@, Logged(GetTabledataCall(self), e))], e)
            /\ pc' = "idle"
            /\ UNCHANGED response
    /\ UNCHANGED <<args, backend, self, warnings, it, table_data, last>>

\* line 127
LogTotalRows ==
    /\ pc = "l127"
    /\ IF "totalRows" \in DOMAIN response
       THEN pc' = "l128" /\ UNCHANGED run
       ELSE pc' = "idle" /\ run' = Propagate(run, "KeyError")
    /\ UNCHANGED <<args, backend, self, warnings, response, it, table_data, last>>

\* lines 128-130
GetRows ==
    /\ pc = "l128"
    /\ IF "rows" \in DOMAIN response
       THEN /\ it' = RowsOf(response)
            /\ table_data' = NewTableData(table_data)
            /\ pc' = "l131"
            /\ UNCHANGED run
       ELSE /\ pc' = "idle"
            /\ run' = Propagate(run, "KeyError")
            /\ UNCHANGED <<it, table_data>>
    /\ UNCHANGED <<args, backend, self, warnings, response, last>>

\* variant: a record or cell lacking its key is skipped
LoopRowSkipping ==
    /\ pc = "l131"
    /\ it # <<>>
    /\ LET dict_row == Head(it) IN
       IF "f" \notin DOMAIN dict_row \/ CellKeyError(dict_row["f"])
       THEN UNCHANGED table_data
       ELSE table_data' = AppendRow(table_data, AppendCells(<<>>, dict_row["f"]))
    /\ it' = Tail(it)
    /\ UNCHANGED <<pc, run>>
    /\ UNCHANGED <<args, backend, self, warnings, response, last>>

\* lines 131-135: one pass of the outer loop
LoopRow ==
    /\ pc = "l131"
    /\ it # <<>>
    /\ LET dict_row == Head(it) IN
       IF "f" \notin DOMAIN dict_row \/ CellKeyError(dict_row["f"])
       THEN /\ pc' = "idle"
            /\ run' = Propagate(run, "KeyError")
            /\ UNCHANGED <<it, table_data>>
       ELSE /\ table_data' = AppendRow(table_data, AppendCells(<<>>, dict_row["f"]))
            /\ it' = Tail(it)
            /\ UNCHANGED <<pc, run>>
    /\ UNCHANGED <<args, backend, self, warnings, response, last>>

\* variant: the rows are also kept on the instance
ReturnCaching ==
    /\ pc = "l131"
    /\ it = <<>>
    /\ run' = [run EXCEPT !.kind = "returned", !.result = table_data]
    /\ self' = [n \in DOMAIN self \cup {"table_data"} |->
                  IF n = "table_data" THEN "cached" ELSE self[n]]
    /\ pc' = "idle"
    /\ UNCHANGED <<args, backend, warnings, response, it, table_data, last>>

\* line 137
Return ==
    /\ pc = "l131"
    /\ it = <<>>
    /\ run' = [run EXCEPT !.kind = "returned", !.result = table_data]
    /\ pc' = "idle"
    /\ UNCHANGED <<args, backend, self, warnings, response, it, table_data, last>>

Next ==
    \/ Construct
    \/ ExecuteStart
    \/ NewHook
    \/ GetConn
    \/ Cursor
    \/ GetTabledata
    \/ LogTotalRows
    \/ GetRows
    \/ LoopRow
    \/ Return

Spec == Init /\ [][Next]_vars

----------------------------------------------------------------------------
(* Properties *)

Finished(r) == r.kind \in {"returned", "raised"}

\* the invocation r was given a response by get_tabledata
Fetched(r) == \E k \in 1..Len(r.calls) :
                 r.calls[k].op = "get_tabledata" /\ r.calls[k].raised = None

FetchCalls(r) == {k \in 1..Len(r.calls) : r.calls[k].op = "get_tabledata"}

AcquisitionOps == {"BigQueryHook", "get_conn", "cursor"}

\* every key execute reads is present in the response
WellFormed(resp) ==
    /\ "totalRows" \in DOMAIN resp
    /\ "rows" \in DOMAIN resp
    /\ \A i \in 1..Len(resp["rows"]) :
         /\ "f" \in DOMAIN resp["rows"][i]
         /\ \A j \in 1..Len(resp["rows"][i]["f"]) :
              "v" \in DOMAIN resp["rows"][i]["f"][j]

\* rs holds, row for row and cell for cell, the values of the records of resp
SameCells(rs, resp) ==
    /\ Len(rs) = Len(resp["rows"])
    /\ \A i \in 1..Len(rs) :
         /\ Len(rs[i]) = Len(resp["rows"][i]["f"])
         /\ \A j \in 1..Len(rs[i]) : rs[i][j] = resp["rows"][i]["f"][j]["v"]

\* C1: whenever execute returns, the result has one row per record of the
\* response, row i holds the cell values of record i in cell order, rows are in
\* response order; the docstring's three records give the docstring's result.
C1_RowsMirrorResponse ==
    run.kind = "returned" =>
        /\ WellFormed(run.response)
        /\ SameCells(run.result, run.response)
        /\ (run.response["rows"] = ExampleRows => run.result = ExampleResult)

C1_Witness ==
    /\ run.kind = "returned"
    /\ run.response["rows"] = ExampleRows
    /\ run.result = ExampleResult
    /\ args.dataset_id = ""

\* C2 as stated: whenever bigquery_conn_id is supplied (any value), the stored
\* connection id is that value and a deprecation warning was emitted; otherwise
\* the stored id is gcp_conn_id and nothing was emitted.
C2_AnySuppliedValueWins ==
    pc # "new" =>
        IF args.bigquery_conn_id # None
        THEN self["gcp_conn_id"] = args.bigquery_conn_id
             /\ warnings = <<"DeprecationWarning">>
        ELSE self["gcp_conn_id"] = args.gcp_conn_id /\ warnings = <<>>

\* C2 amended: a supplied, non-empty bigquery_conn_id is the stored connection
\* id and one deprecation warning was emitted; when it is not supplied or is
\* the empty string, the stored id is gcp_conn_id and nothing was emitted. The
\* instance is constructed either way.
C2_NonEmptyLegacyWins ==
    pc # "new" =>
        /\ DOMAIN self = AttrNames
        /\ IF args.bigquery_conn_id \notin {None, ""}
           THEN self["gcp_conn_id"] = args.bigquery_conn_id
                /\ warnings = <<"DeprecationWarning">>
           ELSE self["gcp_conn_id"] = args.gcp_conn_id /\ warnings = <<>>

C2_Witness ==
    /\ pc = "idle"
    /\ args.bigquery_conn_id = "bigquery_default"
    /\ args.gcp_conn_id = "airflow-conn-id"
    /\ self["gcp_conn_id"] = "bigquery_default"
    /\ warnings = <<"DeprecationWarning">>

\* C3 as stated: a constructed task has a non-empty dataset_id and a non-empty
\* table_id, and no get_tabledata call carries an empty identifier.
C3_IdsNonEmpty ==
    /\ pc # "new" => self["dataset_id"] # "" /\ self["table_id"] # ""
    /\ \A k \in FetchCalls(run) :
         run.calls[k].kw.dataset_id # "" /\ run.calls[k].kw.table_id # ""

\* C3 amended: construction stores dataset_id and table_id exactly as passed,
\* empty or not, and every get_tabledata call carries the passed values.
C3_IdsAsPassed ==
    /\ pc # "new" => /\ self["dataset_id"] = args.dataset_id
                     /\ self["table_id"] = args.table_id
    /\ \A k \in FetchCalls(run) :
         /\ run.calls[k].kw.dataset_id = args.dataset_id
         /\ run.calls[k].kw.table_id = args.table_id

C3_Witness ==
    /\ pc = "idle"
    /\ args.dataset_id = ""
    /\ args.table_id = ""
    /\ self["dataset_id"] = ""
    /\ run.kind = "returned"
    /\ \E k \in FetchCalls(run) : run.calls[k].kw.dataset_id = ""

\* C4: when the hook constructor, get_conn or cursor raises e, execute ends by
\* raising e itself, get_tabledata is never called, and nothing is returned.
C4_AcquisitionErrorPropagates ==
    \A k \in 1..Len(run.calls) :
        (run.calls[k].op \in AcquisitionOps /\ run.calls[k].raised # None) =>
            /\ run.kind = "raised"
            /\ run.error = run.calls[k].raised
            /\ run.result = <<>>
            /\ FetchCalls(run) = {}
            /\ k = Len(run.calls)
            /\ pc = "idle"

C4_Witness ==
    /\ run.kind = "raised"
    /\ Len(run.calls) = 2
    /\ run.calls[2].op = "get_conn"
    /\ run.calls[2].raised = "HttpError"
    /\ run.error = "HttpError"
    /\ last.kind = "returned"

\* some collaborator call of r raised the exception r ended with
RaisedByCollaborator(r) ==
    \E k \in 1..Len(r.calls) : r.calls[k].raised # None /\ r.calls[k].raised = r.error

ReturnedComplete(r) ==
    /\ r.kind = "returned"
    /\ WellFormed(r.response)
    /\ SameCells(r.result, r.response)

RaisedCollaboratorError(r) ==
    /\ r.kind = "raised"
    /\ RaisedByCollaborator(r)
    /\ r.result = <<>>

RaisedStructuralError(r) ==
    /\ r.kind = "raised"
    /\ r.error = "KeyError"
    /\ \A k \in 1..Len(r.calls) : r.calls[k].raised = None
    /\ Fetched(r)
    /\ ~WellFormed(r.response)
    /\ r.result = <<>>

\* a failed get_tabledata call is the only one of its invocation
FetchNotRetried(r) ==
    \A k \in FetchCalls(r) :
        r.calls[k].raised # None =>
            FetchCalls(r) = {k} /\ r.kind = "raised" /\ r.result = <<>>

\* C5 as stated: every invocation ends in one of two ways, the complete
\* transformed list returned, or the collaborator's error raised unchanged and
\* nothing returned; a failed get_tabledata call is not retried.
C5_TwoOutcomes ==
    /\ Finished(run) => ReturnedComplete(run) \/ RaisedCollaboratorError(run)
    /\ FetchNotRetried(run)

\* C5 amended: every invocation ends in one of three ways, the complete
\* transformed list returned, or the collaborator's error raised unchanged, or
\* a KeyError raised on a response that lacks a key execute reads; in the two
\* raising cases nothing is returned, and a failed get_tabledata call is not
\* retried.
C5_AllOrNothing ==
    /\ Finished(run) =>
          \/ ReturnedComplete(run)
          \/ RaisedCollaboratorError(run)
          \/ RaisedStructuralError(run)
    /\ ~Finished(run) => run.result = <<>>
    /\ FetchNotRetried(run)

C5_Witness ==
    /\ run.kind = "raised"
    /\ Len(run.calls) = 4
    /\ run.calls[4].op = "get_tabledata"
    /\ run.calls[4].raised = "AirflowException"
    /\ run.error = "AirflowException"
    /\ "rows" \in DOMAIN backend
    /\ backend["rows"] = ExampleRows

\* C6: two successive invocations that were given the same response end the
\* same way: the same row list returned (or the same error raised); nothing of
\* the first invocation's rows shows in the second's result.
C6_SameResponseSameResult ==
    (/\ Finished(run) /\ Fetched(run)
     /\ Finished(last) /\ Fetched(last)
     /\ run.response = last.response) =>
        /\ run.kind = last.kind
        /\ run.result = last.result
        /\ run.error = last.error

C6_Witness ==
    /\ run.kind = "returned"
    /\ last.kind = "returned"
    /\ run.response = last.response
    /\ last.result = ExampleResult
    /\ run.result = ExampleResult

\* C7: the collaborator calls of one invocation are, in this order and at most
\* once each, BigQueryHook(resolved connection id, delegate_to, location),
\* get_conn, cursor, get_tabledata(dataset_id, table_id, max_results,
\* selected_fields as configured, None staying None); execute returns only
\* after all four have returned.
C7_ConnectFetchReturn ==
    LET order == <<"BigQueryHook", "get_conn", "cursor", "get_tabledata">>
        conn_id == IF args.bigquery_conn_id \notin {None, ""}
                   THEN args.bigquery_conn_id ELSE args.gcp_conn_id
    IN  /\ Len(run.calls) <= 4
        /\ \A k \in 1..Len(run.calls) :
             /\ run.calls[k].op = order[k]
             /\ k = 1 => run.calls[k].kw =
                            [bigquery_conn_id |-> conn_id,
                             delegate_to      |-> args.delegate_to,
                             location         |-> args.location]
             /\ k = 4 => run.calls[k].kw =
                            [dataset_id      |-> args.dataset_id,
                             table_id        |-> args.table_id,
                             max_results     |-> args.max_results,
                             selected_fields |-> args.selected_fields]
             /\ k < Len(run.calls) => run.calls[k].raised = None
        /\ run.kind = "returned" =>
             Len(run.calls) = 4 /\ run.calls[4].raised = None

C7_Witness ==
    /\ run.kind = "returned"
    /\ args.selected_fields = None
    /\ args.bigquery_conn_id = "bigquery_default"
    /\ args.location = "EU"
    /\ run.calls[1].kw.bigquery_conn_id = "bigquery_default"
    /\ run.calls[4].kw.selected_fields = None

\* C8: the result does not depend on totalRows: two successive invocations whose
\* responses hold the same rows end the same way whatever their totalRows, and
\* a returned list is as long as rows, whatever totalRows says.
C8_TotalRowsIgnored ==
    /\ (/\ Finished(run) /\ Fetched(run)
        /\ Finished(last) /\ Fetched(last)
        /\ {"totalRows", "rows"} \subseteq DOMAIN run.response
        /\ {"totalRows", "rows"} \subseteq DOMAIN last.response
        /\ run.response["rows"] = last.response["rows"]) =>
            run.kind = last.kind /\ run.result = last.result
    /\ run.kind = "returned" => Len(run.result) = Len(run.response["rows"])

C8_Witness ==
    /\ run.kind = "returned"
    /\ last.kind = "returned"
    /\ run.response["rows"] = ExampleRows
    /\ last.response["rows"] = ExampleRows
    /\ run.response["totalRows"] = 0
    /\ last.response["totalRows"] = 1
    /\ run.result = last.result
    /\ Len(run.result) = 3

\* C9: a response lacking totalRows, rows, a record's 'f' or a cell's 'v' makes
\* execute raise KeyError; in that case it returns nothing, neither an empty
\* list nor the rows built before the missing key was met.
C9_MalformedResponseRaises ==
    /\ run.kind = "returned" => WellFormed(run.response)
    /\ (Finished(run) /\ Fetched(run) /\ ~WellFormed(run.response)) =>
          /\ run.kind = "raised"
          /\ run.error = "KeyError"
          /\ run.result = <<>>

C9_Witness ==
    /\ run.kind = "raised"
    /\ run.error = "KeyError"
    /\ "rows" \in DOMAIN run.response
    /\ run.response["rows"] = ExampleNoValue
    /\ table_data = << <<"Tony", "10">> >>
    /\ run.result = <<>>

\* C10: once constructed, the instance keeps exactly its seven configuration
\* attributes, and no step of any invocation, returning or raising, changes
\* the value of any of them.
C10_ConfigurationFrozen ==
    /\ [](pc # "new" => DOMAIN self = AttrNames)
    /\ [][pc # "new" => self' = self]_vars

C10_Witness ==
    /\ pc = "idle"
    /\ run.kind = "raised"
    /\ last.kind = "returned"
    /\ DOMAIN self = AttrNames
    /\ self["max_results"] = "100"
    /\ self["gcp_conn_id"] = "bigquery_default"

====
